---------------------------- MODULE Spec2Model ----------------------------
(***************************************************************************)
(* Model of normalchecks.py: the spot-check generator.  main() walks the   *)
(* entries of an annotation document; for each entry it classifies the     *)
(* key, normalises the record, resolves the target frame, fetches and      *)
(* decodes the frame, draws the annotation points and the legend, writes   *)
(* the output image and removes the temporary frame.                       *)
(*                                                                         *)
(* Strings are sequences of one-character strings, so that startswith,     *)
(* split, rsplit, "in" and int() are computed as Python computes them.     *)
(* JSON values are records [t, items]: a dict is an ordered sequence of    *)
(* <<key, value>> pairs, a list a sequence of elements, null has no items. *)
(* Coordinates are rationals n / CoordDenom, held as the integer n.        *)
(***************************************************************************)
EXTENDS Integers, Sequences, FiniteSets, TLC

VARIABLES
    total,        \* number of entries of all_annotations
    idx,          \* 1-based position of the for loop of main
    seen_keys,    \* keys of the entries the loop has already taken
    pc,           \* where the current iteration stands
    video_key,    \* the current entry's key
    video_data,   \* the current entry's value
    category,     \* main: category
    video_name,   \* main: video_name
    json_data,    \* process_video: the normalised record
    frame_num,    \* process_video: frame_num
    frame,        \* process_video: the decoded frame (None before imread)
    files,        \* paths that exist in the output directory
    successful,   \* main: successful
    failed,       \* main: failed
    h_stages,     \* history: stages executed for the current entry, in order
    h_fetch,      \* history: every call of extract_frame_from_s3 for this entry:
                  \* the frame it was given and whether ffmpeg wrote the file
    h_drawn,      \* history: the frame as imread returned it and as draw_annotations left it
    h_saved,      \* history: whether imwrite wrote the current entry's image
    h_counted,    \* history: per visited entry, how often a counter was incremented
    h_result,     \* history: how the current entry ended ("none" while it runs)
    h_files0      \* history: the files that existed when the current entry was taken

vars == <<total, idx, seen_keys, pc, video_key, video_data, category,
          video_name, json_data, frame_num, frame, files, successful,
          failed, h_stages, h_fetch, h_drawn, h_saved, h_counted, h_result,
          h_files0>>

----------------------------------------------------------------------------
(* Bounds of the model *)

MaxEntries == 2     \* entries per document
MaxParts == 3       \* pieces a generated video key is concatenated from
MaxPoints == 2      \* points of a generated PointSet
FrameW == 3         \* long side of a decoded frame, in pixels
FrameH == 2         \* short side of a decoded frame, in pixels
CoordDenom == 2     \* coordinates are multiples of 1 / CoordDenom

----------------------------------------------------------------------------
(* Python string operations *)

\* s.startswith(p)
StartsWith(s, p) == Len(p) <= Len(s) /\ SubSeq(s, 1, Len(p)) = p

\* s.find(sub) + 1: the 1-based position of the first occurrence, 0 if none
Find(sub, s) ==
    LET hits == {i \in 1..(Len(s) - Len(sub) + 1) : SubSeq(s, i, i + Len(sub) - 1) = sub}
    IN  IF hits = {} THEN 0 ELSE CHOOSE i \in hits : \A j \in hits : i <= j

\* s.rfind(sub) + 1: the 1-based position of the last occurrence, 0 if none
RFind(sub, s) ==
    LET hits == {i \in 1..(Len(s) - Len(sub) + 1) : SubSeq(s, i, i + Len(sub) - 1) = sub}
    IN  IF hits = {} THEN 0 ELSE CHOOSE i \in hits : \A j \in hits : i >= j

\* sub in s
Contains(sub, s) == Find(sub, s) # 0

\* s.split(sep): all the parts, left to right
RECURSIVE Split(_, _)
Split(s, sep) ==
    LET i == Find(sep, s)
    IN  IF i = 0 THEN <<s>>
        ELSE <<SubSeq(s, 1, i - 1)>> \o Split(SubSeq(s, i + Len(sep), Len(s)), sep)

\* RSplit1 splitting at the first occurrence instead of the last (split(sep, 1))
SplitAtFirst(s, sep) ==
    LET i == Find(sep, s)
    IN  IF i = 0 THEN <<s>>
        ELSE <<SubSeq(s, 1, i - 1), SubSeq(s, i + Len(sep), Len(s))>>

\* s.rsplit(sep, 1): split once, at the last occurrence
RSplit1(s, sep) ==
    LET i == RFind(sep, s)
    IN  IF i = 0 THEN <<s>>
        ELSE <<SubSeq(s, 1, i - 1), SubSeq(s, i + Len(sep), Len(s))>>

Digits == <<"0", "1", "2", "3", "4", "5", "6", "7", "8", "9">>

DigitVal(c) == (CHOOSE i \in 1..10 : Digits[i] = c) - 1

IsDigit(c) == \E i \in 1..10 : Digits[i] = c

RECURSIVE DecimalVal(_)
DecimalVal(s) ==
    IF s = <<>> THEN 0
    ELSE 10 * DecimalVal(SubSeq(s, 1, Len(s) - 1)) + DigitVal(s[Len(s)])

\* int(s) for a str: an optional sign and one or more decimal digits give the
\* number (leading zeros allowed); anything else raises ValueError.
IntOfStr(s) ==
    LET signed == s # <<>> /\ s[1] \in {"-", "+"}
        body   == IF signed THEN Tail(s) ELSE s
    IN  IF body # <<>> /\ \A i \in 1..Len(body) : IsDigit(body[i])
        THEN [ok |-> TRUE,
              val |-> IF signed /\ s[1] = "-" THEN -DecimalVal(body) ELSE DecimalVal(body)]
        ELSE [ok |-> FALSE, val |-> 0]

\* int(x) for a number x = n / CoordDenom: truncation toward zero
IntOfNum(n) == IF n >= 0 THEN n \div CoordDenom ELSE -((-n) \div CoordDenom)

----------------------------------------------------------------------------
(* JSON values *)

Dict(items) == [t |-> "dict", items |-> items]
List(items) == [t |-> "list", items |-> items]
Null == [t |-> "null", items |-> <<>>]

\* isinstance(v, dict)
IsDict(v) == v.t = "dict"

\* list(d.keys())
Keys(d) == [i \in 1..Len(d.items) |-> d.items[i][1]]

\* k in d, for a dict d
HasKey(d, k) == \E i \in 1..Len(d.items) : d.items[i][1] = k

\* d[k], for a key d has
Get(d, k) == d.items[CHOOSE i \in 1..Len(d.items) : d.items[i][1] = k][2]

----------------------------------------------------------------------------
(* Category classifier: main, lines 213-239 *)

slash == <<"/">>
seq_marker == <<"_","s","e","q">>

category_patterns ==
    << <<"m","o","t","o","r","c","y","c","l","e","_","r","e","p","a","i","r">>,
       <<"a","s","s","e","m","b","l","i","n","g","_","m","o","t","o","r","_","s","t","a","r","t","e","r">>,
       <<"a","d","j","u","s","t","i","n","g","_","v","e","h","i","c","l","e","_","t","i","r","e">>,
       <<"b","a","k","i","n","g">>,
       <<"c","a","n","d","y">>,
       <<"c","l","a","y">>,
       <<"a","c","_","m","a","i","n","t","e","n","a","n","c","e">>,
       <<"f","a","n","_","a","s","s","e","m","b","l","y">>,
       <<"p","r","o","f","e","s","s","i","o","n","a","l","c","h","e","f">>,
       <<"p","a","n","e","l","_","a","s","s","e","m","b","l","y">>,
       <<"c","o","n","s","t","r","u","c","t","i","o","n","_","w","i","r","e","w","o","r","k">>,
       <<"b","u","i","l","d","i","n","g","_","b","o","o","k","s","h","e","l","f">>,
       <<"a","i","r","_","p","u","r","i","f","i","e","r","_","d","e","e","p","_","c","l","e","a","n">>,
       <<"i","n","s","t","a","l","l","i","n","g","_","c","a","r","_","s","p","e","a","k","e","r","s">>,
       <<"m","o","s","a","i","c","_","n","u","m","b","e","r","_","t","i","l","e","s">>,
       <<"w","a","s","h","i","n","g","_","c","l","o","t","h","e","s">>
    >>

NoCategory == <<"<", "N", "o", "n", "e", ">">>

\* for pattern in category_patterns: if video_name.startswith(pattern): ... break
\* (the loop from position i on; NoCategory when it runs off the list)
RECURSIVE PatternLoop(_, _)
PatternLoop(name, i) ==
    IF i > Len(category_patterns) THEN NoCategory
    ELSE IF StartsWith(name, category_patterns[i]) THEN category_patterns[i]
    ELSE PatternLoop(name, i + 1)

\* InferCategory taking what precedes the last "_seq" instead of the first
InferCategoryLastMarker(name) ==
    LET byPattern == PatternLoop(name, 1)
        parts     == RSplit1(name, seq_marker)
    IN  IF byPattern # NoCategory THEN [ok |-> TRUE, category |-> byPattern]
        ELSE IF Len(parts) > 1 THEN [ok |-> TRUE, category |-> parts[1]]
        ELSE [ok |-> FALSE, category |-> NoCategory]

\* the category inferred for a key without '/': lines 217-239
InferCategory(name) ==
    LET byPattern == PatternLoop(name, 1)
        parts     == Split(name, seq_marker)
    IN  IF byPattern # NoCategory THEN [ok |-> TRUE, category |-> byPattern]
        ELSE IF Len(parts) > 1 THEN [ok |-> TRUE, category |-> parts[1]]
        ELSE [ok |-> FALSE, category |-> NoCategory]

\* the (category, video_name) of a key, or ok = FALSE for the "skipping" branch
ClassifyKey(key) ==
    IF Contains(slash, key)
    THEN LET p == RSplit1(key, slash)
         IN  [ok |-> TRUE, category |-> p[1], video_name |-> p[2]]
    ELSE LET c == InferCategory(key)
         IN  [ok |-> c.ok, category |-> c.category, video_name |-> key]

----------------------------------------------------------------------------
(* Frames and the cv2 drawing calls.  A frame is its size and one BGR      *)
(* colour per pixel; every call paints the pixels of its shape that lie    *)
(* inside the frame (cv2 clips).  Shapes are the geometric ones; putText   *)
(* is abstracted to the bounding box of the text it writes.                *)

NoFrame == [w |-> 0, h |-> 0, px |-> <<>>]

\* the value of a pixel as decoded from the file, before any drawing
Decoded == <<-1, -1, -1>>

\* what cv2.imread returns for a w x h image
BlankFrame(w, h) == [w |-> w, h |-> h, px |-> [p \in (0..(w - 1)) \X (0..(h - 1)) |-> Decoded]]

Paint(fr, shape, color) ==
    [fr EXCEPT !.px = [p \in DOMAIN fr.px |-> IF p \in shape THEN color ELSE fr.px[p]]]

\* cv2.circle(frame, c, r, color, thickness): a disc when thickness < 0,
\* otherwise the ring of that width around radius r
Circle(fr, c, r, color, thickness) ==
    LET d2(p) == (p[1] - c[1]) * (p[1] - c[1]) + (p[2] - c[2]) * (p[2] - c[2])
        shape == {p \in DOMAIN fr.px :
                    IF thickness < 0 THEN d2(p) <= r * r
                    ELSE /\ 4 * d2(p) <= (2 * r + thickness) * (2 * r + thickness)
                         /\ 4 * d2(p) >= (2 * r - thickness) * (2 * r - thickness)}
    IN  Paint(fr, shape, color)

\* cv2.line(frame, a, b, color, thickness): the pixels within thickness / 2
\* of the segment a-b
Line(fr, a, b, color, thickness) ==
    LET abx == b[1] - a[1]
        aby == b[2] - a[2]
        len2 == abx * abx + aby * aby
        cross(p) == abx * (p[2] - a[2]) - aby * (p[1] - a[1])
        dot(p) == abx * (p[1] - a[1]) + aby * (p[2] - a[2])
        shape == {p \in DOMAIN fr.px :
                    /\ dot(p) >= 0 /\ dot(p) <= len2
                    /\ 4 * cross(p) * cross(p) <= thickness * thickness * len2}
    IN  Paint(fr, shape, color)

\* cv2.rectangle(frame, p1, p2, color, thickness): filled when thickness < 0,
\* otherwise its border
Rectangle(fr, p1, p2, color, thickness) ==
    LET inside(p) == p[1] >= p1[1] /\ p[1] <= p2[1] /\ p[2] >= p1[2] /\ p[2] <= p2[2]
        edge(p) == p[1] \in {p1[1], p2[1]} \/ p[2] \in {p1[2], p2[2]}
        shape == {p \in DOMAIN fr.px : inside(p) /\ (thickness < 0 \/ edge(p))}
    IN  Paint(fr, shape, color)

\* cv2.putText(frame, text, org, FONT_HERSHEY_SIMPLEX, scale, color, thickness):
\* text at scale tenths / 10, org the bottom-left corner of the text.  The ink
\* of "+" is the two centre lines of its box; the ink of any other text is
\* taken to be its whole bounding box.
PutText(fr, text, org, tenths, color) ==
    LET wd == 2 * tenths * Len(text)
        ht == 2 * tenths
        box == {p \in DOMAIN fr.px :
                  /\ p[1] >= org[1] /\ p[1] <= org[1] + wd
                  /\ p[2] <= org[2] /\ p[2] >= org[2] - ht}
        shape == IF text = <<"+">>
                 THEN {p \in box : 2 * p[1] = 2 * org[1] + wd \/ 2 * p[2] = 2 * org[2] - ht}
                 ELSE box
    IN  Paint(fr, shape, color)

White == <<255, 255, 255>>
Black == <<0, 0, 0>>
Grey == <<200, 200, 200>>
Magenta == <<255, 0, 255>>
Cyan == <<0, 255, 255>>
Green == <<0, 255, 0>>
Red == <<0, 0, 255>>

MarkerRadius == 12

obj1_positive_points == <<"o","b","j","1","_","p","o","s","i","t","i","v","e","_","p","o","i","n","t","s">>
obj1_negative_points == <<"o","b","j","1","_","n","e","g","a","t","i","v","e","_","p","o","i","n","t","s">>
obj2_positive_points == <<"o","b","j","2","_","p","o","s","i","t","i","v","e","_","p","o","i","n","t","s">>
obj2_negative_points == <<"o","b","j","2","_","n","e","g","a","t","i","v","e","_","p","o","i","n","t","s">>
positive_points == <<"p","o","s","i","t","i","v","e","_","p","o","i","n","t","s">>
negative_points == <<"n","e","g","a","t","i","v","e","_","p","o","i","n","t","s">>
positive == <<"p","o","s","i","t","i","v","e">>

\* the colors dict of draw_annotations, in its insertion order
colors ==
    << <<obj1_positive_points, Magenta>>,
       <<obj1_negative_points, Magenta>>,
       <<obj2_positive_points, Cyan>>,
       <<obj2_negative_points, Cyan>>,
       <<positive_points, Green>>,
       <<negative_points, Red>> >>

\* lines 75-79: filled circle, white ring, "+"
PositiveMarker(fr, x, y, color) ==
    LET f1 == Circle(fr, <<x, y>>, MarkerRadius, color, -1)
        f2 == Circle(f1, <<x, y>>, MarkerRadius, White, 2)
    IN  PutText(f2, <<"+">>, <<x - 6, y + 6>>, 6, White)

\* lines 80-83: X mark
NegativeMarker(fr, x, y, color) ==
    LET f1 == Line(fr, <<x - MarkerRadius, y - MarkerRadius>>,
                       <<x + MarkerRadius, y + MarkerRadius>>, color, 3)
    IN  Line(f1, <<x + MarkerRadius, y - MarkerRadius>>,
                 <<x - MarkerRadius, y + MarkerRadius>>, color, 3)

\* InFrame without the lower bounds
InFrameUpperOnly(fr, x, y) == x < fr.w /\ y < fr.h

\* line 74: if 0 <= x < w and 0 <= y < h
InFrame(fr, x, y) == 0 <= x /\ x < fr.w /\ 0 <= y /\ y < fr.h

\* lines 71-83: one point pt of category key
DrawPoint(fr, key, color, pt) ==
    LET x == IntOfNum(pt[1])
        y == IntOfNum(pt[2])
    IN  IF InFrame(fr, x, y)
        THEN IF Contains(positive, key) THEN PositiveMarker(fr, x, y, color)
             ELSE NegativeMarker(fr, x, y, color)
        ELSE fr

\* lines 70-83: for pt in json_data[key], from position j on
RECURSIVE DrawPoints(_, _, _, _, _)
DrawPoints(fr, key, color, pts, j) ==
    IF j > Len(pts) THEN fr
    ELSE DrawPoints(DrawPoint(fr, key, color, pts[j]), key, color, pts, j + 1)

\* lines 66-83: for key, color in colors.items(), from position i on.
\* "key not in json_data" raises TypeError for None and holds of a list of
\* points, whatever the key; iterating a value that is None raises TypeError
\* (the values under category keys are lists of points or None here).
RECURSIVE DrawKeys(_, _, _)
DrawKeys(fr, data, i) ==
    IF i > Len(colors) THEN [ok |-> TRUE, frame |-> fr]
    ELSE LET key == colors[i][1]
             color == colors[i][2]
         IN  IF data.t = "null" THEN [ok |-> FALSE, frame |-> fr]
             ELSE IF data.t = "list" \/ ~HasKey(data, key) THEN DrawKeys(fr, data, i + 1)
             ELSE IF Get(data, key).t # "list" THEN [ok |-> FALSE, frame |-> fr]
             ELSE DrawKeys(DrawPoints(fr, key, color, Get(data, key).items, 1), data, i + 1)

\* draw_annotations(frame, json_data): ok = FALSE when it raises
draw_annotations(fr, data) == DrawKeys(fr, data, 1)

\* str(n) for an integer n
RECURSIVE StrOfNat(_)
StrOfNat(n) == IF n < 10 THEN <<Digits[n + 1]>> ELSE StrOfNat(n \div 10) \o <<Digits[(n % 10) + 1]>>

StrOfInt(n) == IF n < 0 THEN <<"-">> \o StrOfNat(-n) ELSE StrOfNat(n)

\* line 98: f"Frame: {frame_num} | Source: _annotated_720p"
FrameCaption(num) == <<"F","r","a","m","e",":"," ">> \o StrOfInt(num) \o <<" ","|"," ","S","o","u","r","c","e",":"," ","_","a","n","n","o","t","a","t","e","d","_","7","2","0","p">>

\* add_legend(frame, video_name, frame_num): lines 88-114
add_legend(fr, name, num) ==
    LET f1 == Rectangle(fr, <<10, 10>>, <<450, 130>>, Black, -1)
        f2 == Rectangle(f1, <<10, 10>>, <<450, 130>>, White, 1)
        f3 == PutText(f2, name, <<15, 30>>, 5, White)
        f4 == PutText(f3, FrameCaption(num), <<15, 50>>, 4, Grey)
        f5 == Circle(f4, <<25, 75>>, 8, Magenta, -1)
        f6 == PutText(f5, <<"O","b","j","1"," ","+","/","-">>, <<40, 78>>, 4, Magenta)
        f7 == Circle(f6, <<150, 75>>, 8, Cyan, -1)
        f8 == PutText(f7, <<"O","b","j","2"," ","+","/","-">>, <<165, 78>>, 4, Cyan)
        f9 == Circle(f8, <<25, 100>>, 8, Green, -1)
        f10 == PutText(f9, <<"P","o","s","i","t","i","v","e">>, <<40, 103>>, 4, Green)
        f11 == Circle(f10, <<150, 100>>, 8, Red, -1)
    IN  PutText(f11, <<"N","e","g","a","t","i","v","e">>, <<165, 103>>, 4, Red)

----------------------------------------------------------------------------
(* process_video and the loop of main *)

frame_temp_suffix == <<"_","f","r","a","m","e","_","t","e","m","p",".","p","n","g">>
spot_check_suffix == <<"_","a","n","n","o","t","a","t","e","d","_","s","p","o","t","_","c","h","e","c","k",".","p","n","g">>

\* line 140: os.path.join(output_dir, f"{video_name}_frame_temp.png"), relative to output_dir
frame_path == video_name \o frame_temp_suffix

\* line 162: os.path.join(output_dir, f"{video_name}_annotated_spot_check.png")
output_path == video_name \o spot_check_suffix

\* line 242: the keys whose presence makes a dict count as a PointSet
pointset_keys == {positive_points, negative_points, obj1_positive_points}

\* Normalize testing the truth of video_data instead of its type, so that an
\* empty dict is wrapped as well
NormalizeTruthy(v) ==
    IF IsDict(v) /\ v.items # <<>> /\ ~(\E k \in pointset_keys : HasKey(v, k))
    THEN Dict([i \in 1..Len(v.items) |-> <<v.items[i][1], v.items[i][2]>>])
    ELSE Dict(<< <<<<"0">>, v>> >>)

\* line 242: the record handed to process_video.  A dict holding none of
\* pointset_keys is passed on with its keys as str (JSON keys are str
\* already); anything else becomes the one-frame record {'0': video_data}.
Normalize(v) ==
    IF IsDict(v) /\ ~(\E k \in pointset_keys : HasKey(v, k))
    THEN Dict([i \in 1..Len(v.items) |-> <<v.items[i][1], v.items[i][2]>>])
    ELSE Dict(<< <<<<"0">>, v>> >>)

\* line 126: frame_nums = list(json_data.keys())
frame_nums == Keys(json_data)

\* FirstKey taking the last key
LastKey(d) == Keys(d)[Len(Keys(d))]

\* lines 131 and 156: frame_nums[0], for the record d
FirstKey(d) == Keys(d)[1]

\* Finish without the except clause of line 246: an exception leaves the loop
FinishUncaught(result) ==
    IF result = "raise"
    THEN /\ pc' = "done"
         /\ h_result' = result
         /\ UNCHANGED <<successful, failed, h_counted>>
    ELSE /\ successful' = IF result = "True" THEN successful + 1 ELSE successful
         /\ failed' = IF result = "True" THEN failed ELSE failed + 1
         /\ h_counted' = [h_counted EXCEPT ![idx] = @ + 1]
         /\ h_result' = result
         /\ pc' = "finished"

\* lines 243-250 and 238-239: what main does with the outcome of the entry:
\* "True" and "False" are process_video's return values, "raise" an exception
\* caught at line 246, "skip" the unclassifiable key
Finish(result) ==
    /\ successful' = IF result = "True" THEN successful + 1 ELSE successful
    /\ failed' = IF result = "True" THEN failed ELSE failed + 1
    /\ h_counted' = [h_counted EXCEPT ![idx] = @ + 1]
    /\ h_result' = result
    /\ pc' = "finished"

\* lines 210-239: the loop takes the next entry of the document (one of
\* entries, under a key no earlier entry has) and classifies its key
Classify(entries) ==
    /\ pc = "loop" /\ idx <= total
    /\ \E e \in entries :
          /\ e.key \notin seen_keys
          /\ seen_keys' = seen_keys \cup {e.key}
          /\ video_key' = e.key
          /\ video_data' = e.data
          /\ LET c == ClassifyKey(e.key)
             IN  /\ category' = c.category
                 /\ video_name' = c.video_name
                 /\ IF c.ok
                    THEN /\ pc' = "call"
                         /\ UNCHANGED <<successful, failed, h_counted, h_result>>
                    ELSE Finish("skip")
    /\ h_stages' = <<"classify">>
    /\ h_files0' = files
    /\ UNCHANGED <<total, idx, json_data, frame_num, frame, files, h_fetch, h_drawn, h_saved>>

\* line 242 and lines 125-131: normalise the record, take its first key as the frame
Resolve ==
    /\ pc = "call"
    /\ h_stages' = Append(h_stages, "resolve")
    /\ LET data == Normalize(video_data)
       IN  /\ json_data' = data
           /\ IF Keys(data) = <<>>
              THEN /\ Finish("False")
                   /\ UNCHANGED frame_num
              ELSE IF ~IntOfStr(FirstKey(data)).ok
              THEN /\ Finish("raise")
                   /\ UNCHANGED frame_num
              ELSE /\ frame_num' = IntOfStr(FirstKey(data)).val
                   /\ pc' = "fetch"
                   /\ UNCHANGED <<successful, failed, h_counted, h_result>>
    /\ UNCHANGED h_files0
    /\ UNCHANGED <<total, idx, seen_keys, video_key, video_data, category, video_name,
                   frame, files, h_fetch, h_drawn, h_saved>>

\* What the two subprocesses of extract_frame_from_s3 can do: presign fails;
\* ffmpeg ends non-zero or zero, having written output_path or not; or
\* subprocess.run raises (no ffmpeg binary).
FetchOutcomes ==
    {[raised |-> TRUE, presigned |-> TRUE, rc0 |-> FALSE, wrote |-> FALSE],
     [raised |-> FALSE, presigned |-> FALSE, rc0 |-> FALSE, wrote |-> FALSE]}
    \cup {[raised |-> FALSE, presigned |-> TRUE, rc0 |-> r, wrote |-> w] : r, w \in BOOLEAN}

\* lines 28-50: the files after the call
extract_files(o, path) == IF o.wrote THEN files \cup {path} ELSE files

\* line 50: return result.returncode == 0 and os.path.exists(output_path)
extract_frame_from_s3(o, path) == o.presigned /\ o.rc0 /\ path \in extract_files(o, path)

\* lines 139-145
Fetch ==
    /\ pc = "fetch"
    /\ h_stages' = Append(h_stages, "fetch")
    /\ \E o \in FetchOutcomes :
          /\ h_fetch' = Append(h_fetch, [frame |-> frame_num, wrote |-> o.wrote])
          /\ files' = extract_files(o, frame_path)
          /\ IF o.raised THEN Finish("raise")
             ELSE IF ~extract_frame_from_s3(o, frame_path) THEN Finish("False")
             ELSE /\ pc' = "load"
                  /\ UNCHANGED <<successful, failed, h_counted, h_result>>
    /\ UNCHANGED h_files0
    /\ UNCHANGED <<total, idx, seen_keys, video_key, video_data, category, video_name,
                   json_data, frame_num, frame, h_drawn, h_saved>>

\* what cv2.imread can return: None, or the image in either orientation
ImreadResults == {NoFrame, BlankFrame(FrameW, FrameH), BlankFrame(FrameH, FrameW)}

\* lines 147-151
Load ==
    /\ pc = "load"
    /\ h_stages' = Append(h_stages, "load")
    /\ \E r \in ImreadResults :
          /\ frame' = r
          /\ IF r = NoFrame THEN Finish("False")
             ELSE /\ pc' = "draw"
                  /\ UNCHANGED <<successful, failed, h_counted, h_result>>
    /\ UNCHANGED h_files0
    /\ UNCHANGED <<total, idx, seen_keys, video_key, video_data, category, video_name,
                   json_data, frame_num, files, h_fetch, h_drawn, h_saved>>

\* lines 155-156
Draw ==
    /\ pc = "draw"
    /\ h_stages' = Append(h_stages, "draw")
    /\ LET res == draw_annotations(frame, Get(json_data, FirstKey(json_data)))
       IN  /\ frame' = res.frame
           /\ IF res.ok
              THEN /\ h_drawn' = <<frame, res.frame>>
                   /\ pc' = "legend"
                   /\ UNCHANGED <<successful, failed, h_counted, h_result>>
              ELSE /\ Finish("raise")
                   /\ UNCHANGED h_drawn
    /\ UNCHANGED h_files0
    /\ UNCHANGED <<total, idx, seen_keys, video_key, video_data, category, video_name,
                   json_data, frame_num, files, h_fetch, h_saved>>

\* lines 158-159
Legend ==
    /\ pc = "legend"
    /\ h_stages' = Append(h_stages, "legend")
    /\ frame' = add_legend(frame, video_name, frame_num)
    /\ pc' = "save"
    /\ UNCHANGED h_files0
    /\ UNCHANGED <<total, idx, seen_keys, video_key, video_data, category, video_name,
                   json_data, frame_num, files, successful, failed, h_fetch, h_drawn,
                   h_saved, h_counted, h_result>>

\* cv2.imwrite writes the file and returns True, returns False without
\* writing, or raises cv2.error
ImwriteOutcomes == {"written", "not_written", "raised"}

\* lines 161-170: imwrite (its return value is dropped), cleanup, return True
Save ==
    /\ pc = "save"
    /\ h_stages' = Append(h_stages, "save")
    /\ \E o \in ImwriteOutcomes :
          /\ h_saved' = (o = "written")
          /\ IF o = "raised"
             THEN /\ Finish("raise")
                  /\ UNCHANGED files
             ELSE /\ files' = (IF o = "written" THEN files \cup {output_path} ELSE files)
                                 \ {frame_path}
                  /\ Finish("True")
    /\ UNCHANGED h_files0
    /\ UNCHANGED <<total, idx, seen_keys, video_key, video_data, category, video_name,
                   json_data, frame_num, frame, h_fetch, h_drawn>>

\* line 210: the loop moves on; the locals of the finished iteration are gone
Advance ==
    /\ pc = "finished"
    /\ idx' = idx + 1
    /\ pc' = "loop"
    /\ video_key' = <<>> /\ video_data' = Null
    /\ category' = <<>> /\ video_name' = <<>>
    /\ json_data' = Null /\ frame_num' = 0 /\ frame' = NoFrame
    /\ h_stages' = <<>> /\ h_fetch' = <<>> /\ h_drawn' = <<>> /\ h_saved' = FALSE
    /\ h_result' = "none" /\ h_files0' = {}
    /\ UNCHANGED <<total, seen_keys, files, successful, failed, h_counted>>

\* lines 252-254: the loop is exhausted, the totals are printed
Done ==
    /\ pc = "loop" /\ idx > total
    /\ pc' = "done"
    /\ UNCHANGED h_files0
    /\ UNCHANGED <<total, idx, seen_keys, video_key, video_data, category, video_name,
                   json_data, frame_num, frame, files, successful, failed, h_stages,
                   h_fetch, h_drawn, h_saved, h_counted, h_result>>

\* lines 206-207, for a document of n entries
Start(n) ==
    /\ total = n
    /\ idx = 1
    /\ seen_keys = {}
    /\ pc = "loop"
    /\ video_key = <<>> /\ video_data = Null
    /\ category = <<>> /\ video_name = <<>>
    /\ json_data = Null /\ frame_num = 0 /\ frame = NoFrame
    /\ files = {}
    /\ successful = 0 /\ failed = 0
    /\ h_stages = <<>> /\ h_fetch = <<>> /\ h_drawn = <<>> /\ h_saved = FALSE
    /\ h_counted = [i \in 1..n |-> 0]
    /\ h_result = "none"
    /\ h_files0 = {}

Stages == Resolve \/ Fetch \/ Load \/ Draw \/ Legend \/ Save \/ Advance \/ Done

----------------------------------------------------------------------------
(* Inputs: the documents the runs are drawn from *)

Entry(k, d) == [key |-> k, data |-> d]

\* points, as (x, y) in units of 1 / CoordDenom
PtInside == <<CoordDenom, 0>>
PtFarOutside == <<-5 * CoordDenom, 10 * CoordDenom>>

PsScenario == Dict(<< <<positive_points, List(<<PtInside>>)>>,
                      <<negative_points, List(<<PtFarOutside>>)>> >>)
PsObj1 == Dict(<< <<obj1_positive_points, List(<<PtInside>>)>> >>)
PsObj2 == Dict(<< <<obj2_negative_points, List(<<PtInside>>)>> >>)

\* the records of the batch runs: a frame-index record, the empty record, two
\* PointSet-shaped records, a record of two frames, a frame key with leading
\* zeros, a frame key that is no number, null
BatchRecords ==
    { Dict(<< <<<<"1","2","0">>, PsScenario>> >>),
      Dict(<<>>),
      PsObj1,
      PsObj2,
      Dict(<< <<<<"7">>, PsObj2>>, <<<<"1","2","0">>, PsScenario>> >>),
      Dict(<< <<<<"0","0","7">>, PsObj1>> >>),
      Dict(<< <<<<"a","b","c">>, PsScenario>> >>),
      Null }

BatchKeys ==
    { <<"b","a","k","i","n","g","/","v","i","d","e","o","_","7">>,
      <<"c","a","n","d","y","/","v","i","d","e","o","_","7">>,
      <<"b","a","k","i","n","g","_","s","e","q","3">>,
      <<"h","a","n","d","_","s","e","q","1">>,
      <<"a","/","b","/","c","l","i","p">>,
      <<"u","n","k","n","o","w","n","_","t","h","i","n","g","_","x","y","z">> }

BatchEntries == {Entry(k, d) : k \in BatchKeys, d \in BatchRecords}

\* the keys of the classifier runs: every concatenation of 1..MaxParts pieces
KeyPieces ==
    { <<"b","a","k","i","n","g">>, <<"c","l","a","y">>, <<"b","a">>, <<"/">>, <<"_","s","e","q">>, <<"v","i","d","e","o","_","7">>, <<"3">>, <<"u","n","k","n","o","w","n","_","t","h","i","n","g","_","x","y","z">> }

RECURSIVE KeysOf(_)
KeysOf(n) == IF n = 0 THEN {<<>>} ELSE {k \o q : k \in KeysOf(n - 1), q \in KeyPieces}

ClassifyKeys == UNION {KeysOf(n) : n \in 1..MaxParts}

ClassifyEntries == {Entry(k, d) : k \in ClassifyKeys, d \in {Dict(<< <<<<"1","2","0">>, PsScenario>> >>), Dict(<<>>)}}

\* the PointSets of the renderer runs: 1..MaxPoints points placed in order,
\* each of a recognised category (both marker styles) or of an unrecognised one
mask_points == <<"m","a","s","k","_","p","o","i","n","t","s">>

RenderCategories ==
    {obj1_positive_points, obj2_negative_points, positive_points, negative_points,
     mask_points}

\* a point inside every frame; x a negative fraction above -1; x a negative
\* integer; x equal to the short side; y equal to the short side
RenderPoints ==
    { <<1, 1>>, <<-1, 1>>, <<-CoordDenom, 0>>,
      <<CoordDenom * FrameH, 0>>, <<0, CoordDenom * FrameH>> }

\* the PointSet ps with point pt added to category cat
AddPoint(ps, cat, pt) ==
    IF HasKey(ps, cat)
    THEN Dict([i \in 1..Len(ps.items) |->
                 IF ps.items[i][1] = cat
                 THEN <<cat, List(Append(ps.items[i][2].items, pt))>>
                 ELSE ps.items[i]])
    ELSE Dict(Append(ps.items, <<cat, List(<<pt>>)>>))

RECURSIVE PointSetsOf(_)
PointSetsOf(n) ==
    IF n = 0 THEN {Dict(<<>>)}
    ELSE {AddPoint(ps, c, pt) : ps \in PointSetsOf(n - 1), c \in RenderCategories, pt \in RenderPoints}

RenderPointSets == UNION {PointSetsOf(n) : n \in 1..MaxPoints}

RenderEntries == {Entry(<<"b","a","k","i","n","g","/","v","i","d","e","o","_","7">>, Dict(<< <<<<"1","2","0">>, ps>> >>)) : ps \in RenderPointSets}

----------------------------------------------------------------------------
(* Specifications *)

Init == \E n \in 1..MaxEntries : Start(n)

\* a batch over documents of up to MaxEntries entries
Next == Classify(BatchEntries) \/ Stages

Spec == Init /\ [][Next]_vars

InitOne == Start(1)

\* one entry, its key drawn from ClassifyKeys
NextClassify == Classify(ClassifyEntries) \/ Stages

SpecClassify == InitOne /\ [][NextClassify]_vars

\* one entry, its PointSet drawn from RenderPointSets
NextRender == Classify(RenderEntries) \/ Stages

SpecRender == InitOne /\ [][NextRender]_vars

----------------------------------------------------------------------------
(* Properties *)

\* an entry is being processed, or has just been finished
InEntry == pc \notin {"loop", "done"}

\* the entries finished so far
Finished == IF pc = "finished" THEN idx ELSE idx - 1

AllStages == <<"classify", "resolve", "fetch", "load", "draw", "legend", "save">>

IsPrefixOf(s, u) == Len(s) <= Len(u) /\ SubSeq(u, 1, Len(s)) = s

EndsWith(s, suffix) ==
    Len(suffix) <= Len(s) /\ SubSeq(s, Len(s) - Len(suffix) + 1, Len(s)) = suffix

\* C1: the batch never aborts early.  Whatever the entries do (unclassifiable
\* key, empty record, non-integer frame key, fetch or decode failure, an
\* exception in any stage), the loop visits every entry: the two counters
\* always add up to the number of entries finished, every finished entry has
\* incremented exactly one counter exactly once, and the totals are printed
\* only after the last entry.
C1_BatchRunsToCompletion ==
    /\ Finished \in 0..total
    /\ successful + failed = Finished
    /\ \A i \in 1..total : h_counted[i] = IF i <= Finished THEN 1 ELSE 0
    /\ pc = "done" => Finished = total

\* a batch of several entries that ended with successes and failures
C1_Witness == pc = "done" /\ total > 1 /\ successful >= 1 /\ failed >= 1

\* C2: whenever process_video finishes for an entry, the temporary frame the
\* fetch stage created for it no longer exists.
C2_TempFrameAlwaysRemoved ==
    (pc = "finished" /\ \E i \in DOMAIN h_fetch : h_fetch[i].wrote) => frame_path \notin files

\* C3: an entry runs classify, resolve, fetch, load, draw, legend, save in this
\* order, each at most once; it counts as a success only if every stage,
\* writing the output image included, succeeded, and as a failure otherwise.
C3_SuccessOnlyIfEveryStageSucceeded ==
    /\ InEntry => IsPrefixOf(h_stages, AllStages)
    /\ pc = "finished" =>
          /\ h_result = "True" <=> (h_stages = AllStages /\ h_saved)
          /\ h_result # "True" => failed >= 1

\* C4: a key containing '/' is split at its last '/': the category is all that
\* is left of it, the video name all that is right of it (so the name holds
\* no '/'), whatever the prefix list and the "_seq" rule would say.
C4_SlashSplitsOnLast ==
    (InEntry /\ Contains(slash, video_key)) =>
        /\ h_result # "skip"
        /\ video_key = category \o slash \o video_name
        /\ ~Contains(slash, video_name)

\* a key with two slashes that also starts with a listed prefix
C4_Witness ==
    /\ pc = "call"
    /\ Contains(slash, category)
    /\ \E i \in 1..Len(category_patterns) : StartsWith(video_key, category_patterns[i])

\* C5: a key without '/' is its own video name.  Its category is the earliest
\* listed prefix it starts with; failing that, the part before its first
\* "_seq"; failing that, the entry is skipped: one failure is counted, nothing
\* is fetched and no file is touched.
C5_InferenceRuleTable ==
    (InEntry /\ ~Contains(slash, video_key)) =>
        LET matches == {i \in 1..Len(category_patterns) :
                          StartsWith(video_key, category_patterns[i])}
            marks == {n \in 0..(Len(video_key) - Len(seq_marker)) :
                        SubSeq(video_key, n + 1, n + Len(seq_marker)) = seq_marker}
        IN  /\ video_name = video_key
            /\ IF matches # {}
               THEN /\ h_result # "skip"
                    /\ \E i \in matches : /\ category = category_patterns[i]
                                          /\ \A j \in matches : i <= j
               ELSE IF marks # {}
               THEN /\ h_result # "skip"
                    /\ \E n \in marks : /\ category = SubSeq(video_key, 1, n)
                                        /\ \A m \in marks : n <= m
               ELSE /\ pc = "finished"
                    /\ h_result = "skip"
                    /\ h_counted[idx] = 1
                    /\ failed >= 1
                    /\ h_stages = <<"classify">>
                    /\ h_fetch = <<>>
                    /\ files = h_files0

\* a key that starts with no listed prefix and holds "_seq" more than once
C5_Witness ==
    /\ pc = "call"
    /\ ~Contains(slash, video_key)
    /\ \A i \in 1..Len(category_patterns) : ~StartsWith(video_key, category_patterns[i])
    /\ Len(Split(video_key, seq_marker)) > 2

\* the current entry passed frame resolution: a frame was handed to the fetcher
Resolved == pc \in {"fetch", "load", "draw", "legend", "save"} \/ (pc = "finished" /\ h_fetch # <<>>)

\* the frame num is the one handed to the fetcher and to the legend, and the
\* points drawn are pts
TargetIs(num, pts) ==
    /\ frame_num = num
    /\ \A i \in DOMAIN h_fetch : h_fetch[i].frame = num
    /\ Get(json_data, FirstKey(json_data)) = pts

\* C6 as stated: for every record with at least one key, the frame the
\* pipeline resolves is the record's first key coerced to integer, paired
\* with that key's PointSet.
C6_FrameIsFirstKeyOfRecord ==
    (Resolved /\ IsDict(video_data) /\ video_data.items # <<>>) =>
        /\ IntOfStr(video_data.items[1][1]).ok
        /\ TargetIs(IntOfStr(video_data.items[1][1]).val, video_data.items[1][2])

\* C6 as amended: that holds of the records holding none of positive_points,
\* negative_points, obj1_positive_points; a record holding one of them
\* resolves to the implicit frame 0, paired with the whole record.
C6_FrameIsFirstKeyUnlessPointSet ==
    (Resolved /\ IsDict(video_data) /\ video_data.items # <<>>) =>
        IF \E i \in 1..Len(video_data.items) :
              video_data.items[i][1] \in {positive_points, negative_points, obj1_positive_points}
        THEN TargetIs(0, video_data)
        ELSE /\ IntOfStr(video_data.items[1][1]).ok
             /\ TargetIs(IntOfStr(video_data.items[1][1]).val, video_data.items[1][2])

\* a record of two frames was resolved to its first key, 7
C6_Witness ==
    /\ pc = "save"
    /\ Len(video_data.items) = 2
    /\ frame_num = 7
    /\ h_fetch # <<>>

\* the six keys of the category vocabulary
Vocabulary == {colors[i][1] : i \in 1..Len(colors)}

\* C7: a record holding at least one key of the category vocabulary is
\* processed as the single frame 0 with the whole record as its PointSet;
\* any other record is processed as the frame-index mapping it is.
C7_VocabularyKeyMakesPointSet ==
    (InEntry /\ pc # "call" /\ h_result # "skip" /\ IsDict(video_data)) =>
        IF \E k \in Vocabulary : HasKey(video_data, k)
        THEN json_data = Dict(<< <<<<"0">>, video_data>> >>)
        ELSE json_data = video_data

\* C8: an empty record fails frame resolution: the entry is counted as
\* failed, the fetcher is never invoked for it, and no temporary frame or
\* output image is produced for it.
C8_EmptyRecordSkipped ==
    (InEntry /\ video_data = Dict(<<>>)) =>
        /\ pc \in {"call", "finished"}
        /\ h_fetch = <<>>
        /\ files = h_files0
        /\ pc = "finished" =>
              /\ h_counted[idx] = 1
              /\ failed >= 1
              /\ h_result = (IF ClassifyKey(video_key).ok THEN "False" ELSE "skip")
              /\ h_stages = (IF ClassifyKey(video_key).ok THEN <<"classify", "resolve">>
                             ELSE <<"classify">>)

\* an empty record under a classifiable key, after process_video returned False
C8_Witness ==
    /\ pc = "finished"
    /\ video_data = Dict(<<>>)
    /\ h_result = "False"
    /\ h_stages = <<"classify", "resolve">>

\* the PointSet handed to draw_annotations
DrawnPoints == Get(json_data, FirstKey(json_data))

\* the raw coordinates of pt lie in [0, w) x [0, h)
RawInside(fr, pt) ==
    /\ 0 <= pt[1] /\ pt[1] < CoordDenom * fr.w
    /\ 0 <= pt[2] /\ pt[2] < CoordDenom * fr.h

\* the coordinates of pt, truncated toward zero, lie in [0, w) x [0, h)
TruncInside(fr, pt) ==
    /\ 0 <= IntOfNum(pt[1]) /\ IntOfNum(pt[1]) < fr.w
    /\ 0 <= IntOfNum(pt[2]) /\ IntOfNum(pt[2]) < fr.h

\* the recognised categories of ps, each with those of its points that keep holds of
KeepPoints(ps, keep(_)) ==
    LET known == SelectSeq(ps.items, LAMBDA it : it[1] \in Vocabulary)
    IN  Dict([i \in 1..Len(known) |-> <<known[i][1], List(SelectSeq(known[i][2].items, keep))>>])

NoPoints(ps) == \A i \in 1..Len(ps.items) : ps.items[i][2].items = <<>>

EarlierNames ==
    {ClassifyKey(k).video_name : k \in {q \in seen_keys \ {video_key} : ClassifyKey(q).ok}}

\* C10: two distinct entries never share a temporary-frame path or an
\* output-image path, so the batch leaves exactly one output image per
\* successfully processed entry.
C10_PathsNeverCollide ==
    /\ (InEntry /\ h_result # "skip") =>
          \A n \in EarlierNames : /\ n \o frame_temp_suffix # frame_path
                                  /\ n \o spot_check_suffix # output_path
    /\ pc = "done" =>
          Cardinality({f \in files : EndsWith(f, spot_check_suffix)}) = successful

=============================================================================
